---- MODULE Spec2Model ----
(***************************************************************************)
(* Model of web_mapping_project2025_2.py: a Streamlit script that is run   *)
(* top to bottom on every browser event.  The state is the per-session     *)
(* st.session_state, the saved widget values, the two process-wide         *)
(* st.cache_data memo tables and the position and locals of the script run *)
(* in progress.  Data frames are records [kind, crs, cols, rows]; a row is *)
(* a function from column names to values; a geometry is a record          *)
(* [valid, parts] whose parts are sets of grid points.                     *)
(***************************************************************************)
EXTENDS Integers, Sequences, FiniteSets, TLC

VARIABLES
    ss,          \* st.session_state: Absent, or [auth_ok, username, user_role, points_gdf]
    widgets,     \* the saved selectbox states of the session: label -> [opts, val]
    rendered,    \* the input widgets the page shows (drawn by the last run so far)
    se_cache,    \* st.cache_data table of load_se_data: locator -> NoEntry or frame
    pts_cache,   \* st.cache_data table of load_points_from_github
    pc,          \* position of the script run
    ev,          \* the browser event of the run in progress, until the last widget has read it
    gdf,         \* script global gdf (line 83)
    points_gdf,  \* script global points_gdf (lines 110-114)
    gdf_idse,    \* script global gdf_idse (line 149)
    pts_inside,  \* script global pts_inside (line 256)
    totals,      \* [m, f, total] as written by line 259, or NoTotals
    executed,    \* the pipeline stages the run in progress has entered
    diag,        \* the st.error / st.sidebar.error messages of the run
    crashedAt,   \* the stage whose statement raised an uncaught exception
    lastFetch,   \* what the last step fetched: [url, content], or NoFetch
    submitted,   \* the (user, password) pair of the last Login click
    jn,          \* safe_sjoin harness: [points, polygons, result]
    ld           \* load_se_data harness: [pc, gdf]

vars == <<ss, widgets, rendered, se_cache, pts_cache, pc, ev, gdf, points_gdf,
          gdf_idse, pts_inside, totals, executed, diag, crashedAt, lastFetch,
          submitted, jn, ld>>

-----------------------------------------------------------------------------
(* Values *)

\* Python None where a frame is expected
None == [kind |-> "None"]
\* Python None where a scalar is expected (the value st.selectbox returns for no options)
NoValue == "<None>"
\* a null cell of a text column (pandas NaN / None)
NULL == "<NA>"
\* a null cell of a numeric column (pandas NaN), as pd.to_numeric(errors="coerce") makes it
NaN == -1

SE_URL == "SE.geojson"
POINTS_URL == "concession.csv"

USERS == [admin    |-> [password |-> "admin2025", role |-> "Admin"],
          customer |-> [password |-> "cust2025",  role |-> "Customer"]]

\* what a user may type in the password box
Passwords == {"admin2025", "cust2025", "wrong"}

\* gpd.read_file / pd.read_csv raising instead of returning a table
Unreadable == [kind |-> "error"]

EPSG4326 == "EPSG:4326"
NoCrs == "<no crs>"

\* the rows of a frame become a set
Range(s) == {s[i] : i \in DOMAIN s}

\* boolean indexing: the rows whose mask entry is true, in order
RECURSIVE SelectRows(_, _)
SelectRows(rows, keep) ==
    IF rows = <<>> THEN <<>>
    ELSE IF keep[1] THEN <<rows[1]>> \o SelectRows(Tail(rows), Tail(keep))
         ELSE SelectRows(Tail(rows), Tail(keep))

\* frame[mask], the mask a boolean per row
Filter(frame, mask) == [frame EXCEPT !.rows = SelectRows(frame.rows, mask)]

\* DataFrame.empty
empty(frame) == frame.rows = <<>> \/ frame.cols = {}

-----------------------------------------------------------------------------
(* Collation of the text values, as Python compares str *)

Collation == <<"", "A", "B", "M", "N", "U1", "U2", "X", "Y">>
Rank(v) == CHOOSE i \in DOMAIN Collation : Collation[i] = v

RECURSIVE sorted(_)
sorted(S) ==
    IF S = {} THEN <<>>
    ELSE LET lo == CHOOSE v \in S : \A w \in S : Rank(v) <= Rank(w)
         IN  <<lo>> \o sorted(S \ {lo})

\* Series.dropna().unique() of a column, as a set
unique_dropna(frame, col) == {r[col] : r \in Range(frame.rows)} \ {NULL}

-----------------------------------------------------------------------------
(* load_se_data, lines 67-80 *)

\* a projected reference and the geographic one differ by the axis order on the grid
Reproject(geom) ==
    [geom EXCEPT !.parts = [i \in DOMAIN geom.parts |->
                               {<<c[2], c[1]>> : c \in geom.parts[i]}]]

to_crs(frame) ==
    IF frame.crs = EPSG4326 THEN frame
    ELSE [frame EXCEPT !.crs = EPSG4326,
                       !.rows = [i \in DOMAIN frame.rows |->
                                   [frame.rows[i] EXCEPT !["geometry"] = Reproject(@)]]]

set_crs(frame) == [frame EXCEPT !.crs = EPSG4326]

\* line 70
FixCrs(frame) == IF frame.crs # NoCrs THEN to_crs(frame) ELSE set_crs(frame)

\* str.lower().str.strip() of the attribute names a source may carry
lower_strip(name) ==
    CASE name = "LREGION"   -> "lregion"
      [] name = " LCercle " -> "lcercle"
      [] name = "IDSE_NEW"  -> "idse_new"
      [] name = " Pop_SE"   -> "pop_se"
      [] OTHER              -> name

\* line 72
alias(name) ==
    CASE name = "lregion"  -> "region"
      [] name = "lcercle"  -> "cercle"
      [] name = "lcommune" -> "commune"
      [] OTHER             -> name

\* assigning or renaming the column index: every row is re-keyed
MapColumns(frame, f) ==
    LET new == {f[c] : c \in frame.cols}
    IN  [frame EXCEPT !.cols = new,
                      !.rows = [i \in DOMAIN frame.rows |->
                                  [c \in new |-> frame.rows[i][CHOOSE o \in frame.cols : f[o] = c]]]]

\* line 71
NormalizeColumns(frame) == MapColumns(frame, [c \in frame.cols |-> lower_strip(c)])

\* line 72
RenameAliases(frame) == MapColumns(frame, [c \in frame.cols |-> alias(c)])

is_valid(geom) == geom.valid
is_empty(geom) == \A i \in DOMAIN geom.parts : geom.parts[i] = {}

\* the mask without its ~gdf.is_empty half
KeepsGeometry_valid_only(row) == is_valid(row["geometry"])

KeepsGeometry(row) == is_valid(row["geometry"]) /\ ~is_empty(row["geometry"])

\* line 73
DropInvalid(frame) == Filter(frame, [i \in DOMAIN frame.rows |-> KeepsGeometry(frame.rows[i])])

\* gdf[col] = value for a column that is not there
AddColumn(frame, col, value) ==
    IF col \in frame.cols THEN frame
    ELSE [frame EXCEPT !.cols = @ \cup {col},
                       !.rows = [i \in DOMAIN frame.rows |->
                                   [c \in frame.cols \cup {col} |->
                                       IF c = col THEN value ELSE frame.rows[i][c]]]]

\* lines 74-76
FillHierarchy(frame) ==
    AddColumn(AddColumn(AddColumn(AddColumn(frame, "region", ""), "cercle", ""),
                        "commune", ""), "idse_new", "")

\* lines 77-79
FillPopulation(frame) == AddColumn(AddColumn(frame, "pop_se", 0), "pop_se_ct", 0)

\* the statements of load_se_data after gpd.read_file, in program order (lines 70-79)
LoadSteps == <<"fix_crs", "normalize_columns", "rename_aliases", "drop_invalid",
               "fill_hierarchy", "fill_population">>

ApplyStep(step, frame) ==
    CASE step = "fix_crs"           -> FixCrs(frame)
      [] step = "normalize_columns" -> NormalizeColumns(frame)
      [] step = "rename_aliases"    -> RenameAliases(frame)
      [] step = "drop_invalid"      -> DropInvalid(frame)
      [] step = "fill_hierarchy"    -> FillHierarchy(frame)
      [] step = "fill_population"   -> FillPopulation(frame)

RECURSIVE ApplySteps(_, _)
ApplySteps(steps, frame) ==
    IF steps = <<>> THEN frame ELSE ApplySteps(Tail(steps), ApplyStep(steps[1], frame))

\* lines 69-80, after gpd.read_file has returned raw
load_se_data(raw) == ApplySteps(LoadSteps, raw)

-----------------------------------------------------------------------------
(* load_points_from_github, lines 93-108 *)

\* pd.to_numeric(errors="coerce") of a CSV cell; the coordinates are 0 and 1
to_numeric(text) ==
    CASE text = "0" -> 0
      [] text = "1" -> 1
      [] OTHER      -> NaN

CoerceColumn(frame, col) ==
    [frame EXCEPT !.rows = [i \in DOMAIN frame.rows |->
                              [frame.rows[i] EXCEPT ![col] = to_numeric(@)]]]

HasCoordinates(row) == row["LAT"] # NaN /\ row["LON"] # NaN

\* line 101
dropna_lat_lon(frame) ==
    Filter(frame, [i \in DOMAIN frame.rows |-> HasCoordinates(frame.rows[i])])

Point(x, y) == [valid |-> TRUE, parts |-> <<{<<x, y>>}>>]

\* lines 102-106
points_from_xy(frame) ==
    [kind |-> "gdf", crs |-> EPSG4326, cols |-> frame.cols \cup {"geometry"},
     rows |-> [i \in DOMAIN frame.rows |->
                 [c \in frame.cols \cup {"geometry"} |->
                     IF c = "geometry" THEN Point(frame.rows[i]["LON"], frame.rows[i]["LAT"])
                     ELSE frame.rows[i][c]]]]

\* lines 95-108
load_points_from_github(csv) ==
    IF csv = Unreadable THEN None
    ELSE IF ~({"LAT", "LON"} \subseteq csv.cols) THEN None
    ELSE points_from_xy(dropna_lat_lon(CoerceColumn(CoerceColumn(csv, "LAT"), "LON")))

-----------------------------------------------------------------------------
(* safe_sjoin, lines 119-126 *)

RECURSIVE Concat(_)
Concat(seqs) == IF seqs = <<>> THEN <<>> ELSE seqs[1] \o Concat(Tail(seqs))

\* GeoDataFrame.explode(ignore_index=True): one row per part
explode(frame) ==
    [frame EXCEPT !.rows =
        Concat([i \in DOMAIN frame.rows |->
                  [k \in DOMAIN frame.rows[i]["geometry"].parts |->
                      [frame.rows[i] EXCEPT !["geometry"] =
                          [valid |-> @.valid, parts |-> <<@.parts[k]>>]]]])]

intersects(g, h) ==
    \E i \in DOMAIN g.parts, k \in DOMAIN h.parts : g.parts[i] \cap h.parts[k] # {}

drop_columns(frame, names) ==
    [frame EXCEPT !.cols = @ \ names,
                  !.rows = [i \in DOMAIN frame.rows |->
                              [c \in frame.cols \ names |-> frame.rows[i][c]]]]

\* gpd.sjoin(how="inner"): one joined row per (point, polygon) pair that satisfies
\* the predicate, carrying the point's columns, the polygon's attributes and its index
sjoin(points, polygons) ==
    LET attrs == polygons.cols \ {"geometry"}
        cols  == points.cols \cup {"index_right"} \cup attrs
        pair(i, k) ==
            [c \in cols |-> IF c \in points.cols THEN points.rows[i][c]
                            ELSE IF c = "index_right" THEN k
                            ELSE polygons.rows[k][c]]
        matches(i) ==
            SelectRows([k \in DOMAIN polygons.rows |-> pair(i, k)],
                       [k \in DOMAIN polygons.rows |->
                           intersects(points.rows[i]["geometry"],
                                      polygons.rows[k]["geometry"])])
    IN  [kind |-> "gdf", crs |-> points.crs, cols |-> cols,
         rows |-> Concat([i \in DOMAIN points.rows |-> matches(i)])]

\* the empty result built without the point set's columns
EmptyJoin_bare(points) == [kind |-> "gdf", crs |-> NoCrs, cols |-> {}, rows |-> <<>>]

\* lines 120-122
EmptyJoin(points) ==
    [kind |-> "gdf",
     crs  |-> IF points # None THEN points.crs ELSE NoCrs,
     cols |-> IF points # None THEN points.cols ELSE {},
     rows |-> <<>>]

safe_sjoin(points, polygons) ==
    IF points = None \/ empty(points) \/ polygons = None \/ empty(polygons)
    THEN EmptyJoin(points)
    ELSE sjoin(points, drop_columns(polygons, {"index_right", "_r"}))

-----------------------------------------------------------------------------
(* Sidebar filters, lines 138-149 *)

NoFilter == "No filter"

\* an st.selectbox call.  The widget is identified by its label and options: with
\* the options of the previous run it returns the saved value (or the one the
\* user has just picked); with other options it is a new widget at index 0; with
\* no options it returns None.
selectbox(saved, label, options, event) ==
    IF options = <<>> THEN NoValue
    ELSE IF saved.opts = options
         THEN IF event.type = "select" /\ event.label = label THEN event.val
              ELSE saved.val
         ELSE options[1]

\* frame[frame[col] == value]
ColumnIs(frame, col, value) ==
    Filter(frame, [i \in DOMAIN frame.rows |-> frame.rows[i][col] = value])

\* the choices taken from the whole boundary dataset instead of the filtered frame
choices_unfiltered(frame, col) == sorted(unique_dropna(gdf, col))

\* lines 138, 141, 144
choices(frame, col) == sorted(unique_dropna(frame, col))

\* line 147
idse_choices(frame) == <<NoFilter>> \o sorted(unique_dropna(frame, "idse_new"))

\* line 149
UnitFilter(frame, idse_selected) ==
    IF idse_selected = NoFilter THEN frame ELSE ColumnIs(frame, "idse_new", idse_selected)

NoWidgets == [l \in {"Region", "Cercle", "Commune", "Unit_Geo"} |->
                [opts |-> <<>>, val |-> NoValue]]

\* lines 138-148: the four selectbox calls, each on the frame the one above left
SidebarFilters(frame, saved, event) ==
    LET o1 == choices(frame, "region")
        region == selectbox(saved["Region"], "Region", o1, event)
        gdf_r == ColumnIs(frame, "region", region)
        o2 == choices(gdf_r, "cercle")
        cercle == selectbox(saved["Cercle"], "Cercle", o2, event)
        gdf_c == ColumnIs(gdf_r, "cercle", cercle)
        o3 == choices(gdf_c, "commune")
        commune == selectbox(saved["Commune"], "Commune", o3, event)
        gdf_commune == ColumnIs(gdf_c, "commune", commune)
        o4 == idse_choices(gdf_commune)
        idse_selected == selectbox(saved["Unit_Geo"], "Unit_Geo", o4, event)
    IN  [widgets |-> [Region   |-> [opts |-> o1, val |-> region],
                      Cercle   |-> [opts |-> o2, val |-> cercle],
                      Commune  |-> [opts |-> o3, val |-> commune],
                      Unit_Geo |-> [opts |-> o4, val |-> idse_selected]],
         gdf_idse |-> UnitFilter(gdf_commune, idse_selected)]

-----------------------------------------------------------------------------
(* Map, lines 154-170 *)

\* GeoDataFrame.total_bounds is all-NaN for a frame without rows, and
\* folium.Map(location=...) raises ValueError on a NaN coordinate
MapRaises(frame) == frame.rows = <<>>

-----------------------------------------------------------------------------
(* Sex aggregation, lines 254-259 *)

\* a sum that counts each point once, however many polygons it joined
RECURSIVE column_sum_once(_, _)
column_sum_once(rows, col) ==
    IF rows = <<>> THEN 0
    ELSE (IF rows[1][col] = NaN
             \/ \E i \in 2..Len(rows) : rows[i]["geometry"] = rows[1]["geometry"]
          THEN 0 ELSE rows[1][col]) + column_sum_once(Tail(rows), col)

\* Series.sum(): NaN cells are skipped, and the sum of nothing is 0
RECURSIVE column_sum(_, _)
column_sum(rows, col) ==
    IF rows = <<>> THEN 0
    ELSE (IF rows[1][col] = NaN THEN 0 ELSE rows[1][col]) + column_sum(Tail(rows), col)

\* lines 257-258
total_of(joined, col) == IF ~empty(joined) THEN column_sum(joined.rows, col) ELSE 0

NoTotals == [shown |-> FALSE]

\* line 259
Totals(joined) ==
    LET m_total == total_of(joined, "Masculin")
        f_total == total_of(joined, "Feminin")
    IN  [shown |-> TRUE, m |-> m_total, f |-> f_total, total |-> m_total + f_total]

\* line 254
HasSexColumns(points) == points # None /\ {"Masculin", "Feminin"} \subseteq points.cols

-----------------------------------------------------------------------------
(* The remote sources: what a fetch of each locator may return *)

MaxRows == 2
MaxPts == 2

SeqsUpTo(S, n) == UNION {[1..k -> S] : k \in 0..n}

G1 == [valid |-> TRUE, parts |-> <<{<<0, 0>>, <<0, 1>>}>>]
\* a multipolygon whose two parts touch in (1, 0)
G2 == [valid |-> TRUE, parts |-> <<{<<0, 0>>, <<1, 0>>}, {<<1, 0>>, <<1, 1>>}>>]
\* a self-intersecting ring
GBad == [valid |-> FALSE, parts |-> <<{<<1, 1>>}>>]
GEmpty == [valid |-> TRUE, parts |-> <<>>]

Units == {[idse_new |-> "U1", geometry |-> G1], [idse_new |-> "U2", geometry |-> G2],
          [idse_new |-> "U2", geometry |-> GBad]}
U1 == [idse_new |-> "U1", geometry |-> G1]
U2 == [idse_new |-> "U2", geometry |-> G2]

Feature(region, cercle, commune, unit) ==
    [region |-> region, cercle |-> cercle, commune |-> commune,
     idse_new |-> unit.idse_new, pop_se |-> 100, pop_se_ct |-> 120,
     geometry |-> unit.geometry]

Features == {Feature(r, c, "M", u) : r \in {"A", "B"}, c \in {"X", "Y", NULL}, u \in Units}

\* the canonical attribute a source column carries
Meaning(name) ==
    CASE name \in {"region", "LREGION"}    -> "region"
      [] name \in {"cercle", " LCercle "}  -> "cercle"
      [] name \in {"commune", "lcommune"}  -> "commune"
      [] name \in {"idse_new", "IDSE_NEW"} -> "idse_new"
      [] name \in {"pop_se", " Pop_SE"}    -> "pop_se"
      [] OTHER                             -> name

GeoJson(crs, header, features) ==
    [kind |-> "gdf", crs |-> crs, cols |-> header,
     rows |-> [i \in DOMAIN features |-> [c \in header |-> features[i][Meaning(c)]]]]

CanonicalHeader == {"region", "cercle", "commune", "idse_new", "pop_se", "pop_se_ct", "geometry"}
AliasHeader == {"LREGION", " LCercle ", "lcommune", "IDSE_NEW", " Pop_SE", "geometry"}
BareHeader == {"LREGION", "geometry"}
Headers == {CanonicalHeader, AliasHeader, BareHeader}
SourceCrs == {EPSG4326, "EPSG:32629", NoCrs}

\* a few sources that exercise the loader: aliases, a projected reference, missing columns
OddSources ==
    {GeoJson("EPSG:32629", AliasHeader,
             <<Feature("A", "X", "M", U1),
               Feature("B", "Y", "N", U2)>>),
     GeoJson(NoCrs, BareHeader,
             <<Feature("A", "X", "M", U1),
               Feature("B", "X", "M", [idse_new |-> "U2", geometry |-> GEmpty])>>),
     GeoJson(EPSG4326, CanonicalHeader,
             <<Feature("A", "X", "M", U1),
               Feature("A", "X", NULL, U2),
               Feature("A", "Y", "N", U2)>>)}

\* every boundary source of up to MaxRows features, and the odd ones
AllBoundaries ==
    {GeoJson(EPSG4326, CanonicalHeader, f) : f \in SeqsUpTo(Features, MaxRows)} \cup OddSources

FewBoundaries == OddSources

PointValues ==
    {[LAT |-> la, LON |-> lo, Masculin |-> m, Feminin |-> f] :
        la \in {"0", "abc"}, lo \in {"0", "1"}, m \in {2, NaN}, f \in {1}}

Csv(header, values) ==
    [kind |-> "csv", cols |-> header,
     rows |-> [i \in DOMAIN values |-> [c \in header |-> values[i][c]]]]

FullHeader == {"LAT", "LON", "Masculin", "Feminin"}
CsvHeaders == {FullHeader, {"LAT", "LON", "Masculin"}, {"LAT", "Masculin", "Feminin"}}

AllPoints == {Csv(h, v) : h \in CsvHeaders, v \in SeqsUpTo(PointValues, MaxPts)}

FewPoints ==
    {Csv(FullHeader, <<[LAT |-> "0", LON |-> "0", Masculin |-> 2, Feminin |-> 1],
                       [LAT |-> "0", LON |-> "1", Masculin |-> 1, Feminin |-> 3]>>),
     Csv({"LAT", "Masculin", "Feminin"}, <<[LAT |-> "0", Masculin |-> 2, Feminin |-> 1]>>)}

-----------------------------------------------------------------------------
(* Session state and browser events *)

Absent == [kind |-> "Absent"]
NoEntry == [kind |-> "NoEntry"]
NoFetch == [url |-> NoValue]
NoLogin == [user |-> NoValue, password |-> NoValue]

\* lines 29-32 and 38-41
LoggedOut == [auth_ok |-> FALSE, username |-> NoValue, user_role |-> NoValue,
              points_gdf |-> None]

Rerun == [type |-> "rerun"]
Labels == {"Region", "Cercle", "Commune", "Unit_Geo"}

\* what a user can do with the widgets the page shows
Events(shown, saved) ==
    {Rerun}
    \cup (IF "Login" \in shown
          THEN {[type |-> "login", user |-> u, password |-> p] :
                    u \in DOMAIN USERS, p \in Passwords}
          ELSE {})
    \cup (IF "Logout" \in shown THEN {[type |-> "logout"]} ELSE {})
    \cup UNION {{[type |-> "select", label |-> l, val |-> v] : v \in Range(saved[l].opts)} :
                    l \in shown \cap Labels}

Ended == {"idle", "stopped", "done", "crashed"}

ResetRun ==
    /\ gdf' = None
    /\ points_gdf' = None
    /\ gdf_idse' = None
    /\ pts_inside' = None
    /\ totals' = NoTotals
    /\ executed' = {}
    /\ diag' = {}
    /\ crashedAt' = NoValue
    /\ lastFetch' = NoFetch

\* st.experimental_rerun(): the run is abandoned and the script starts over
RerunScript ==
    /\ pc' = "session_init"
    /\ ev' = Rerun
    /\ rendered' = {}
    /\ widgets' = NoWidgets
    /\ ResetRun

Harness == <<jn, ld>>

-----------------------------------------------------------------------------
(* The script, one action per block *)

\* a browser event starts a run of the script
StartRun ==
    /\ pc \in Ended
    /\ \E e \in Events(rendered, widgets) : ev' = e
    /\ pc' = "session_init"
    /\ rendered' = {}
    /\ ResetRun
    /\ UNCHANGED <<ss, widgets, se_cache, pts_cache, submitted, Harness>>

\* the browser tab is closed and a new one opened: a fresh session, same process
NewSession ==
    /\ pc \in Ended
    /\ ss # Absent
    /\ ss' = Absent
    /\ widgets' = NoWidgets
    /\ rendered' = {}
    /\ pc' = "idle"
    /\ ev' = Rerun
    /\ ResetRun
    /\ UNCHANGED <<se_cache, pts_cache, submitted, Harness>>

\* lines 28-32
SessionInit ==
    /\ pc = "session_init"
    /\ ss' = IF ss = Absent THEN LoggedOut ELSE ss
    /\ pc' = "login"
    /\ lastFetch' = NoFetch
    /\ UNCHANGED <<widgets, rendered, se_cache, pts_cache, ev, gdf, points_gdf, gdf_idse,
                   pts_inside, totals, executed, diag, crashedAt, submitted, Harness>>

\* a check that accepts the password of any user
PasswordOk_any_user(username, password) ==
    \E u \in DOMAIN USERS : password = USERS[u].password

\* line 52
PasswordOk(username, password) == password = USERS[username].password

\* lines 53-55
LoggedIn(session, username) ==
    [session EXCEPT !.auth_ok = TRUE, !.username = username,
                    !.user_role = USERS[username].role]

\* lines 47-60
Login ==
    /\ pc = "login"
    /\ IF ss.auth_ok
       THEN /\ pc' = "load_se"
            /\ lastFetch' = NoFetch
            /\ UNCHANGED <<ss, widgets, rendered, ev, gdf, points_gdf, gdf_idse, pts_inside,
                           totals, executed, diag, crashedAt, submitted>>
       ELSE IF ev.type = "login"
            THEN /\ submitted' = [user |-> ev.user, password |-> ev.password]
                 /\ IF PasswordOk(ev.user, ev.password)
                    THEN /\ ss' = LoggedIn(ss, ev.user)
                         /\ RerunScript
                    ELSE /\ diag' = {"Incorrect password"}
                         /\ pc' = "stopped"
                         /\ ev' = Rerun
                         /\ rendered' = {"Login"}
                         /\ widgets' = NoWidgets
                         /\ lastFetch' = NoFetch
                         /\ UNCHANGED <<ss, gdf, points_gdf, gdf_idse, pts_inside,
                                        totals, executed, crashedAt>>
            ELSE /\ pc' = "stopped"
                 /\ ev' = Rerun
                 /\ rendered' = {"Login"}
                 /\ widgets' = NoWidgets
                 /\ lastFetch' = NoFetch
                 /\ UNCHANGED <<ss, gdf, points_gdf, gdf_idse, pts_inside, totals,
                                executed, diag, crashedAt, submitted>>
    /\ UNCHANGED <<se_cache, pts_cache, Harness>>

\* the loaders without their @st.cache_data decorator
CacheHit_never(cache, url) == FALSE

\* @st.cache_data, lines 67 and 93: the call is answered from the table when the
\* locator has an entry; the table is never cleared or expired
CacheHit(cache, url) == cache[url] # NoEntry

\* the except branch without its st.stop()
AfterLoadError_continue == "load_points"

\* line 86: st.stop()
AfterLoadError == "stopped"

\* lines 82-86: the memoized call, and the except branch
LoadSe(remote) ==
    /\ pc = "load_se"
    /\ executed' = executed \cup {"load_se"}
    /\ IF CacheHit(se_cache, SE_URL)
       THEN /\ gdf' = se_cache[SE_URL]
            /\ lastFetch' = NoFetch
            /\ pc' = "load_points"
            /\ UNCHANGED <<se_cache, diag, widgets, ev>>
       ELSE \E raw \in remote \cup {Unreadable} :
              /\ lastFetch' = [url |-> SE_URL, content |-> raw]
              /\ IF raw = Unreadable
                 THEN /\ diag' = {"Unable to load SE.geojson from GitHub"}
                      /\ pc' = AfterLoadError
                      /\ ev' = Rerun
                      /\ widgets' = NoWidgets
                      /\ UNCHANGED <<se_cache, gdf>>
                 ELSE /\ se_cache' = [se_cache EXCEPT ![SE_URL] = load_se_data(raw)]
                      /\ gdf' = load_se_data(raw)
                      /\ pc' = "load_points"
                      /\ UNCHANGED <<diag, widgets, ev>>
    /\ UNCHANGED <<ss, rendered, pts_cache, points_gdf, gdf_idse, pts_inside, totals,
                   crashedAt, submitted, Harness>>

\* lines 110-114
LoadPoints(remote) ==
    /\ pc = "load_points"
    /\ executed' = executed \cup {"load_points"}
    /\ IF ss.points_gdf # None
       THEN /\ points_gdf' = ss.points_gdf
            /\ lastFetch' = NoFetch
            /\ UNCHANGED <<ss, pts_cache>>
       ELSE IF CacheHit(pts_cache, POINTS_URL)
            THEN /\ points_gdf' = pts_cache[POINTS_URL]
                 /\ ss' = [ss EXCEPT !.points_gdf = pts_cache[POINTS_URL]]
                 /\ lastFetch' = NoFetch
                 /\ UNCHANGED pts_cache
            ELSE \E csv \in remote \cup {Unreadable} :
                      /\ lastFetch' = [url |-> POINTS_URL, content |-> csv]
                      /\ pts_cache' = [pts_cache EXCEPT
                                          ![POINTS_URL] = load_points_from_github(csv)]
                      /\ points_gdf' = load_points_from_github(csv)
                      /\ ss' = [ss EXCEPT !.points_gdf = load_points_from_github(csv)]
    /\ pc' = "sidebar"
    /\ UNCHANGED <<widgets, rendered, se_cache, ev, gdf, gdf_idse, pts_inside, totals, diag,
                   crashedAt, submitted, Harness>>

\* lines 131-135: the logout button, and logout() of lines 37-42
Sidebar ==
    /\ pc = "sidebar"
    /\ IF ev.type = "logout"
       THEN /\ ss' = LoggedOut
            /\ RerunScript
       ELSE /\ rendered' = {"Logout"}
            /\ pc' = "filters"
            /\ lastFetch' = NoFetch
            /\ UNCHANGED <<ss, widgets, ev, gdf, points_gdf, gdf_idse, pts_inside, totals,
                           executed, diag, crashedAt>>
    /\ UNCHANGED <<se_cache, pts_cache, submitted, Harness>>

\* lines 137-149
Filters ==
    /\ pc = "filters"
    /\ executed' = executed \cup {"filters"}
    /\ widgets' = SidebarFilters(gdf, widgets, ev).widgets
    /\ gdf_idse' = SidebarFilters(gdf, widgets, ev).gdf_idse
    /\ rendered' = rendered \cup Labels
    /\ ev' = Rerun
    /\ pc' = "map"
    /\ lastFetch' = NoFetch
    /\ UNCHANGED <<ss, se_cache, pts_cache, gdf, points_gdf, pts_inside, totals, diag,
                   crashedAt, submitted, Harness>>

\* lines 154-170
Map ==
    /\ pc = "map"
    /\ executed' = executed \cup {"map"}
    /\ IF MapRaises(gdf_idse)
       THEN pc' = "crashed" /\ crashedAt' = "map"
       ELSE pc' = "markers" /\ UNCHANGED crashedAt
    /\ lastFetch' = NoFetch
    /\ UNCHANGED <<ss, widgets, rendered, se_cache, pts_cache, ev, gdf, points_gdf, gdf_idse,
                   pts_inside, totals, diag, submitted, Harness>>

\* points_gdf.iterrows(): an AttributeError on None
iterrows(points) == IF points = None THEN "raises" ELSE "drawn"

\* the marker loop without its "is not None" guard
AddPoints_unguarded(points) == iterrows(points)

\* lines 173-181
AddPoints(points) == IF points # None THEN iterrows(points) ELSE "skipped"

Markers ==
    /\ pc = "markers"
    /\ executed' = executed \cup {"markers"}
    /\ IF AddPoints(points_gdf) = "raises"
       THEN pc' = "crashed" /\ crashedAt' = "markers"
       ELSE pc' = "charts" /\ UNCHANGED crashedAt
    /\ lastFetch' = NoFetch
    /\ UNCHANGED <<ss, widgets, rendered, se_cache, pts_cache, ev, gdf, points_gdf, gdf_idse,
                   pts_inside, totals, diag, submitted, Harness>>

\* lines 234-267: the population chart and the sex panel, then the footer.  The
\* drawing tools and the table of drawn coordinates (lines 183-232) read and
\* write none of the state above.
Charts ==
    /\ pc = "charts"
    /\ IF widgets["Unit_Geo"].val # NoFilter
       THEN IF HasSexColumns(points_gdf)
            THEN /\ executed' = executed \cup {"chart", "sjoin", "aggregate"}
                 /\ pts_inside' = safe_sjoin(points_gdf, explode(gdf_idse))
                 /\ totals' = Totals(safe_sjoin(points_gdf, explode(gdf_idse)))
            ELSE /\ executed' = executed \cup {"chart"}
                 /\ UNCHANGED <<pts_inside, totals>>
       ELSE UNCHANGED <<executed, pts_inside, totals>>
    /\ pc' = "done"
    /\ lastFetch' = NoFetch
    /\ UNCHANGED <<ss, widgets, rendered, se_cache, pts_cache, ev, gdf, points_gdf, gdf_idse,
                   diag, crashedAt, submitted, Harness>>

Run(boundaries, points) ==
    \/ StartRun
    \/ NewSession
    \/ SessionInit
    \/ Login
    \/ LoadSe(boundaries)
    \/ LoadPoints(points)
    \/ Sidebar
    \/ Filters
    \/ Map
    \/ Markers
    \/ Charts

Init ==
    /\ ss = Absent
    /\ widgets = NoWidgets
    /\ rendered = {}
    /\ se_cache = [u \in {SE_URL} |-> NoEntry]
    /\ pts_cache = [u \in {POINTS_URL} |-> NoEntry]
    /\ pc = "idle"
    /\ ev = Rerun
    /\ gdf = None
    /\ points_gdf = None
    /\ gdf_idse = None
    /\ pts_inside = None
    /\ totals = NoTotals
    /\ executed = {}
    /\ diag = {}
    /\ crashedAt = NoValue
    /\ lastFetch = NoFetch
    /\ submitted = NoLogin
    /\ jn = [stage |-> "off"]
    /\ ld = [stage |-> "off"]

\* the app against every boundary source and a few point sources
Next == Run(AllBoundaries, FewPoints)
Spec == Init /\ [][Next]_vars

\* the app against a few boundary sources and every point source
NextPoints == Run(FewBoundaries, AllPoints)
SpecPoints == Init /\ [][NextPoints]_vars

-----------------------------------------------------------------------------
(* safe_sjoin on its own: every pair of inputs, absent and empty ones included *)

JoinPoints == {None} \cup {load_points_from_github(c) : c \in AllPoints}
JoinPolygons ==
    {None} \cup {explode(load_se_data(b)) :
                    b \in FewBoundaries \cup {GeoJson(EPSG4326, CanonicalHeader, <<>>)}}

InitJoin ==
    /\ Init!1 /\ Init!2 /\ Init!3 /\ Init!4 /\ Init!5 /\ Init!6 /\ Init!7 /\ Init!8
    /\ Init!9 /\ Init!10 /\ Init!11 /\ Init!12 /\ Init!13 /\ Init!14 /\ Init!15
    /\ Init!16 /\ Init!17
    /\ ld = [stage |-> "off"]
    /\ \E p \in JoinPoints, q \in JoinPolygons :
         jn = [stage |-> "called", points |-> p, polygons |-> q]

\* lines 119-126
SafeSjoin ==
    /\ jn.stage = "called"
    /\ jn' = [stage |-> "returned", points |-> jn.points, polygons |-> jn.polygons,
              result |-> safe_sjoin(jn.points, jn.polygons)]
    /\ UNCHANGED <<ss, widgets, rendered, se_cache, pts_cache, pc, ev, gdf, points_gdf,
                   gdf_idse, pts_inside, totals, executed, diag, crashedAt, lastFetch,
                   submitted, ld>>

SpecJoin == InitJoin /\ [][SafeSjoin]_vars

-----------------------------------------------------------------------------
(* load_se_data statement by statement, on every source *)

LoaderFeatures ==
    {Feature("A", "X", "M", U1), Feature("B", NULL, "N", U2),
     Feature("A", "Y", "M", [idse_new |-> "U2", geometry |-> GBad]),
     Feature("B", "X", "M", [idse_new |-> "U1", geometry |-> GEmpty])}

LoaderSources ==
    {GeoJson(crs, h, f) : crs \in SourceCrs, h \in Headers,
                          f \in SeqsUpTo(LoaderFeatures, MaxRows)}

InitLoad ==
    /\ Init!1 /\ Init!2 /\ Init!3 /\ Init!4 /\ Init!5 /\ Init!6 /\ Init!7 /\ Init!8
    /\ Init!9 /\ Init!10 /\ Init!11 /\ Init!12 /\ Init!13 /\ Init!14 /\ Init!15
    /\ Init!16 /\ Init!17
    /\ jn = [stage |-> "off"]
    /\ \E raw \in LoaderSources :
         ld = [stage |-> "running", raw |-> raw, gdf |-> raw, done |-> <<>>]

\* the statement of load_se_data that runs next
Statement(step) ==
    /\ ld.stage = "running"
    /\ Len(ld.done) < Len(LoadSteps)
    /\ LoadSteps[Len(ld.done) + 1] = step
    /\ ld' = [ld EXCEPT !.gdf = ApplyStep(step, @), !.done = Append(@, step)]
    /\ UNCHANGED <<ss, widgets, rendered, se_cache, pts_cache, pc, ev, gdf, points_gdf,
                   gdf_idse, pts_inside, totals, executed, diag, crashedAt, lastFetch,
                   submitted, jn>>

LdFixCrs == Statement("fix_crs")
LdNormalizeColumns == Statement("normalize_columns")
LdRenameAliases == Statement("rename_aliases")
LdDropInvalid == Statement("drop_invalid")
LdFillHierarchy == Statement("fill_hierarchy")
LdFillPopulation == Statement("fill_population")

\* line 80
LdReturn ==
    /\ ld.stage = "running"
    /\ Len(ld.done) = Len(LoadSteps)
    /\ ld' = [ld EXCEPT !.stage = "returned"]
    /\ UNCHANGED <<ss, widgets, rendered, se_cache, pts_cache, pc, ev, gdf, points_gdf,
                   gdf_idse, pts_inside, totals, executed, diag, crashedAt, lastFetch,
                   submitted, jn>>

NextLoad ==
    \/ LdFixCrs
    \/ LdNormalizeColumns
    \/ LdRenameAliases
    \/ LdDropInvalid
    \/ LdFillHierarchy
    \/ LdFillPopulation
    \/ LdReturn

SpecLoad == InitLoad /\ [][NextLoad]_vars

-----------------------------------------------------------------------------
(* Properties *)

IsPrefix(s, t) == Len(s) <= Len(t) /\ \A i \in DOMAIN s : s[i] = t[i]

\* o lists the members of S once each, in ascending collation order
IsSortedSetOf(o, S) ==
    /\ Range(o) = S
    /\ Len(o) = Cardinality(S)
    /\ \A i, j \in DOMAIN o : i < j => Rank(o[i]) < Rank(o[j])

NonNull(R, col) == {r[col] : r \in R} \ {NULL}

Selected(label) == widgets[label].val

\* the boundary records that match the selections down to each level
InRegion == {r \in Range(gdf.rows) : r["region"] = Selected("Region")}
InCercle == {r \in InRegion : r["cercle"] = Selected("Cercle")}
InCommune == {r \in InCercle : r["commune"] = Selected("Commune")}

\* every selectbox returns one of its options, or None when it has none
SelectionsOffered ==
    \A l \in Labels :
        IF widgets[l].opts = <<>> THEN Selected(l) = NoValue
        ELSE Selected(l) \in Range(widgets[l].opts)

\* a selected value names a record under the selections above it
SelectionsConsistent ==
    /\ Selected("Cercle") # NoValue => \E r \in InRegion : r["cercle"] = Selected("Cercle")
    /\ Selected("Commune") # NoValue => \E r \in InCercle : r["commune"] = Selected("Commune")
    /\ Selected("Unit_Geo") \notin {NoValue, NoFilter}
          => \E r \in InCommune : r["idse_new"] = Selected("Unit_Geo")

UpperChoices ==
    /\ IsSortedSetOf(widgets["Region"].opts, NonNull(Range(gdf.rows), "region"))
    /\ IsSortedSetOf(widgets["Cercle"].opts, NonNull(InRegion, "cercle"))
    /\ IsSortedSetOf(widgets["Commune"].opts, NonNull(InCercle, "commune"))

\* C1 as written: after the filters have run, every level's choice list, the
\* unit list included, is exactly the sorted, deduplicated set of the non-null
\* values of its field among the records the levels above have kept, and every
\* selected value names a record under the selections above it.
C1_ChoicesAreFilteredSets ==
    "filters" \in executed =>
        /\ UpperChoices
        /\ IsSortedSetOf(widgets["Unit_Geo"].opts, NonNull(InCommune, "idse_new"))
        /\ SelectionsOffered
        /\ SelectionsConsistent

\* C1 amended: the region, cercle and commune lists are exactly the sorted,
\* deduplicated non-null values among the records kept by the levels above; the
\* unit list is the entry "No filter" followed by the sorted, deduplicated
\* non-null units of the selected commune; every selected value is one of the
\* choices offered and names a record under the selections above it.
C1_ChoicesAfterNoFilter ==
    "filters" \in executed =>
        /\ UpperChoices
        /\ widgets["Unit_Geo"].opts # <<>>
        /\ Head(widgets["Unit_Geo"].opts) = NoFilter
        /\ IsSortedSetOf(Tail(widgets["Unit_Geo"].opts), NonNull(InCommune, "idse_new"))
        /\ SelectionsOffered
        /\ SelectionsConsistent

\* the user has moved the region away from the first choice, and a cercle of the
\* dataset that does not occur under the selected region is not offered
C1_Witness ==
    /\ "filters" \in executed
    /\ Len(widgets["Region"].opts) = 2
    /\ Selected("Region") = "B"
    /\ widgets["Cercle"].opts = <<"Y">>
    /\ "X" \in NonNull(Range(gdf.rows), "cercle")

\* C2: with the point set or the polygon set empty or None, safe_sjoin returns
\* a frame (not None) that has no rows and has the point set's columns (none
\* when the point set is None).
C2_EmptyInputsJoinEmpty ==
    (/\ jn.stage = "returned"
     /\ \/ jn.points = None
        \/ jn.points.rows = <<>>
        \/ jn.polygons = None
        \/ jn.polygons.rows = <<>>)
    => /\ jn.result # None
       /\ jn.result.kind = "gdf"
       /\ jn.result.rows = <<>>
       /\ jn.result.cols = (IF jn.points = None THEN {} ELSE jn.points.cols)

C2_Witness ==
    /\ jn.stage = "returned"
    /\ jn.points # None
    /\ jn.points.rows # <<>>
    /\ jn.polygons # None
    /\ jn.polygons.rows = <<>>
    /\ jn.result.rows = <<>>

\* C3: once a loader's table holds an entry for a locator, no step changes that
\* entry or fetches that locator again, and every later call returns the entry:
\* the frame a run has loaded is the one in the table.
C3_LoadedOnce ==
    [][/\ se_cache[SE_URL] # NoEntry
          => se_cache'[SE_URL] = se_cache[SE_URL] /\ lastFetch'.url # SE_URL
       /\ pts_cache[POINTS_URL] # NoEntry
          => pts_cache'[POINTS_URL] = pts_cache[POINTS_URL] /\ lastFetch'.url # POINTS_URL
       /\ gdf' # None => gdf' = se_cache'[SE_URL]
       /\ "load_points" \in executed' => points_gdf' = pts_cache'[POINTS_URL]]_vars

\* a later session's run has been served both datasets without a fetch
C3_Witness ==
    /\ pc = "sidebar"
    /\ lastFetch = NoFetch
    /\ ss.points_gdf # None
    /\ gdf = se_cache[SE_URL]
    /\ points_gdf = pts_cache[POINTS_URL]
    /\ ss.username = "customer"

\* C4: in a run whose boundary load has failed, the diagnostic is shown, the
\* run has stopped without an uncaught exception, and no stage other than the
\* boundary load has been entered.
C4_LoadFailureHalts ==
    ("load_se" \in executed /\ gdf = None)
    => /\ diag = {"Unable to load SE.geojson from GitHub"}
       /\ pc = "stopped"
       /\ crashedAt = NoValue
       /\ executed = {"load_se"}
       /\ points_gdf = None /\ gdf_idse = None /\ pts_inside = None /\ totals = NoTotals

C4_Witness ==
    /\ "load_se" \in executed
    /\ gdf = None
    /\ pc = "stopped"
    /\ ss.auth_ok

\* C5: a run whose filter cascade has left no boundary record does not fail:
\* no statement of it raises.
C5_EmptySelectionRenders ==
    ("filters" \in executed /\ gdf_idse.rows = <<>>) => pc # "crashed"

\* C6: a point source without LAT or LON, or one that cannot be read, loads as
\* None and the run goes on; and in a run whose points are None neither the
\* marker loop nor the join and aggregation raise, the latter being skipped.
C6_NoDataIsValid ==
    /\ (/\ lastFetch.url = POINTS_URL
        /\ \/ lastFetch.content = Unreadable
           \/ ~({"LAT", "LON"} \subseteq lastFetch.content.cols))
       => points_gdf = None /\ pc = "sidebar"
    /\ ("load_points" \in executed /\ points_gdf = None)
       => /\ crashedAt \notin {"markers", "charts"}
          /\ {"sjoin", "aggregate"} \cap executed = {}
          /\ pts_inside = None /\ totals = NoTotals

C6_Witness ==
    /\ pc = "done"
    /\ points_gdf = None
    /\ executed = {"load_se", "load_points", "filters", "map", "markers", "chart"}

SumOfColumn(rows, col) ==
    LET n == Len(rows)
        upto[k \in 0..n] ==
            IF k = 0 THEN 0
            ELSE upto[k - 1] + (IF rows[k][col] = NaN THEN 0 ELSE rows[k][col])
    IN  upto[n]

\* C7: the male and female totals a run reports are the sums of Masculin and
\* Feminin over every joined record, both 0 when nothing joined, and the total
\* reported is their sum.
C7_TotalsAreSums ==
    totals.shown =>
        /\ totals.m = SumOfColumn(pts_inside.rows, "Masculin")
        /\ totals.f = SumOfColumn(pts_inside.rows, "Feminin")
        /\ totals.total = totals.m + totals.f
        /\ pts_inside.rows = <<>> => totals.m = 0 /\ totals.f = 0 /\ totals.total = 0

\* points were loaded and none of them lies in the selected unit
C7_Witness ==
    /\ totals.shown
    /\ points_gdf.rows # <<>>
    /\ gdf_idse.rows # <<>>
    /\ pts_inside.rows = <<>>
    /\ totals.total = 0

\* C8: a run that shows the sex panel for points without a Masculin or without a
\* Feminin column reports a male sum of 0 and a female sum of 0.
C8_AbsentColumnsSumToZero ==
    (/\ pc = "done"
     /\ "chart" \in executed
     /\ points_gdf # None
     /\ ~({"Masculin", "Feminin"} \subseteq points_gdf.cols))
    => totals.shown /\ totals.m = 0 /\ totals.f = 0

RequiredFields == {"region", "cercle", "commune", "idse_new", "pop_se", "pop_se_ct"}

\* what load_se_data returns for every source: the canonical reference, the six
\* fields, and exactly the source's records of valid, non-empty geometry
ReturnsNormalized ==
    ld.stage = "returned" =>
        /\ ld.gdf.crs = EPSG4326
        /\ RequiredFields \subseteq ld.gdf.cols
        /\ \A r \in Range(ld.gdf.rows) :
              r["geometry"].valid /\ \E k \in DOMAIN r["geometry"].parts :
                                        r["geometry"].parts[k] # {}
        /\ Len(ld.gdf.rows) =
              Cardinality({i \in DOMAIN ld.raw.rows :
                              /\ ld.raw.rows[i]["geometry"].valid
                              /\ ld.raw.rows[i]["geometry"].parts # <<>>})
        /\ ld.gdf = load_se_data(ld.raw)

\* no statement of load_se_data is stuck on a source, whatever columns it lacks
NeverFails == ld.stage = "running" => ENABLED NextLoad

\* C9 as written: the statements run in the order reproject, normalize names,
\* rename aliases, fill missing fields, drop invalid geometry.
C9_FillThenDrop ==
    ld.stage # "off" =>
        IsPrefix(ld.done, <<"fix_crs", "normalize_columns", "rename_aliases",
                            "fill_hierarchy", "fill_population", "drop_invalid">>)

\* C9 amended: the statements run in the order reproject, normalize names,
\* rename aliases, drop invalid or empty geometry, fill missing hierarchy fields
\* with "" and missing population fields with 0; the load goes through whatever
\* optional columns are missing; and every returned record has a valid,
\* non-empty geometry and the six fields.
C9_DropThenFill ==
    /\ ld.stage # "off" =>
          IsPrefix(ld.done, <<"fix_crs", "normalize_columns", "rename_aliases",
                              "drop_invalid", "fill_hierarchy", "fill_population">>)
    /\ NeverFails
    /\ ReturnsNormalized

\* a source without the optional columns and with an invalid record has loaded
C9_Witness ==
    /\ ld.stage = "returned"
    /\ ld.raw.cols = BareHeader
    /\ Len(ld.raw.rows) = 2
    /\ Len(ld.gdf.rows) = 1
    /\ ld.gdf.rows[1]["commune"] = ""
    /\ ld.gdf.rows[1]["pop_se_ct"] = 0

\* C10: a session is authenticated only as a user of USERS whose stored
\* password is the one submitted and whose role it carries; a session that is
\* not authenticated holds no username, no role and no points.
C10_SessionInvariant ==
    ss # Absent =>
        /\ ss.auth_ok =>
              /\ ss.username \in DOMAIN USERS
              /\ submitted.user = ss.username
              /\ submitted.password = USERS[ss.username].password
              /\ ss.user_role = USERS[ss.username].role
        /\ ~ss.auth_ok =>
              /\ ss.username = NoValue
              /\ ss.user_role = NoValue
              /\ ss.points_gdf = None

\* a session that had loaded its points has logged out
C10_Witness ==
    /\ ss # Absent
    /\ ~ss.auth_ok
    /\ pc = "session_init"
    /\ submitted.user = "customer"
    /\ pts_cache[POINTS_URL] # NoEntry
    /\ widgets = NoWidgets
    /\ se_cache[SE_URL] # NoEntry

====
